---- MODULE Spec2Model ----
(***************************************************************************)
(* BranchValve (pydhn/components/base_branch_valve.py): a valve placed on  *)
(* one network edge, controlled by the flow coefficient Kv.  The solver    *)
(* writes mass_flow and temperature into the component, calls the          *)
(* pressure-drop operation _compute_delta_p and the thermal operation      *)
(* _compute_temperatures, and may read delta_p back.                       *)
(*                                                                         *)
(* Python floats are modelled as exact rationals <<n, d>> in lowest terms  *)
(* with d > 0; a key that is absent from the attribute mapping (or a       *)
(* value of None) is the pair <<0, 0>>.  Attributes are scalars, so the    *)
(* time-step identifier ts_id selects nothing and is left out.             *)
(***************************************************************************)
EXTENDS Integers, Sequences, FiniteSets, TLC

\* ------------------------------------------------------------------ bounds
\* The small flow magnitude the solver tries besides 0 and 10 kg/s.
LowFlow == 1

\* --------------------------------------------------------------- rationals
Absent == <<0, 0>>

Abs(x) == IF x < 0 THEN -x ELSE x

RECURSIVE GCD(_, _)
GCD(a, b) == IF b = 0 THEN a ELSE GCD(b, a % b)

Norm(n, d) ==
    LET s == IF d < 0 THEN -1 ELSE 1
        g == GCD(Abs(n), Abs(d))
    IN  <<(s * n) \div g, (s * d) \div g>>

R(n) == <<n, 1>>

RNeg(x) == <<-x[1], x[2]>>

RMul(x, y) ==
    LET a == Norm(x[1], y[2])
        b == Norm(y[1], x[2])
    IN  Norm(a[1] * b[1], a[2] * b[2])

RAdd(x, y) ==
    LET g == GCD(x[2], y[2])
    IN  Norm(x[1] * (y[2] \div g) + y[1] * (x[2] \div g), x[2] * (y[2] \div g))

RSub(x, y) == RAdd(x, RNeg(y))

RAbs(x) == <<Abs(x[1]), x[2]>>

RSign(x) == IF x[1] > 0 THEN 1 ELSE IF x[1] < 0 THEN -1 ELSE 0

\* |x - y| <= 1/tol of a unit
RNear(x, y, tol) ==
    LET d == RAbs(RSub(x, y))
    IN  d[1] * tol <= d[2]

\* ------------------------------------------------------------ input values
\* Two component instances of one network.
Comp == {"valve_a", "valve_b"}

\* Two execution contexts of an external scheduler.
Threads == {"t1", "t2"}

\* Constructor arguments <<kv, dz, line>>.
ConfigValues ==
    { <<25, 0, "None">>, <<25, 5, "supply">>, <<50, 5, "None">>,
      <<0, 0, "None">>, <<-25, 5, "supply">> }

FlowValues == {-10, 0, 10} \cup {-LowFlow, LowFlow}

TempValues == {20, 100}

Fluids == {"water", "void", "nofluid"}

\* ------------------------------------------------------------------- state
\* attrs[c]   : the attribute mapping _attrs of component c
\* tags[c]    : the identity tags _class, _type, _is_ideal of component c
\* last[c]    : the most recent operation on c and what it returned
\* threads[t] : the evaluation thread t has in flight, if any
VARIABLES attrs, tags, last, threads

vars == <<attrs, tags, last, threads>>

\* ------------------------------------------------------ fluid collaborator
\* fluid.get_rho(temperature): "water" is a valid fluid model, "void" is a
\* fluid model whose density is not positive.
get_rho(fluid, temperature) ==
    IF fluid = "water"
    THEN IF temperature = <<20, 1>> THEN <<1000, 1>> ELSE <<960, 1>>
    ELSE IF temperature = <<20, 1>> THEN <<0, 1>> ELSE <<-1, 1>>

\* ----------------------------------------------------------- hydraulic law
FRICTION_COEFF == 1296000000

\* standard gravity, in micrometres per second squared
G_MICRO == 9806650

Ok(vals) == [kind |-> "ok", error |-> "", vals |-> vals]

Raise(error) == [kind |-> "error", error |-> error, vals |-> <<>>]

NoOutcome == [kind |-> "none", error |-> "", vals |-> <<>>]

\* Faulty variant: mdot squared, the flow direction lost.
dp_friction_no_abs(mdot, kv, rho_fluid) ==
    RMul(RMul(R(FRICTION_COEFF), Norm(rho_fluid[2], rho_fluid[1] * kv * kv)),
         RMul(mdot, mdot))

\* Faulty variant: kv not squared.
dp_friction_kv_not_squared(mdot, kv, rho_fluid) ==
    RMul(RMul(R(FRICTION_COEFF), Norm(rho_fluid[2], rho_fluid[1] * kv)),
         RMul(RAbs(mdot), mdot))

\* (1.296e9 / (rho Kv^2)) |mdot| mdot
dp_friction(mdot, kv, rho_fluid) ==
    RMul(RMul(R(FRICTION_COEFF), Norm(rho_fluid[2], rho_fluid[1] * kv * kv)),
         RMul(RAbs(mdot), mdot))

\* (2 * 1.296e9 / (rho Kv^2)) |mdot|
dp_friction_der(mdot, kv, rho_fluid) ==
    RMul(RMul(R(FRICTION_COEFF), Norm(2 * rho_fluid[2], rho_fluid[1] * kv * kv)),
         RAbs(mdot))

\* rho g dz
dp_hydrostatic(dz, rho_fluid) ==
    RMul(RMul(rho_fluid, Norm(G_MICRO, 1000000)), R(dz))

compute_dp_valve_body(mdot, kv, dz, rho_fluid, compute_hydrostatic, compute_der) ==
    LET friction == dp_friction(mdot, kv, rho_fluid)
        dp == IF compute_hydrostatic
              THEN RAdd(friction, dp_hydrostatic(dz, rho_fluid))
              ELSE friction
        dp_der == IF compute_der
                  THEN dp_friction_der(mdot, kv, rho_fluid)
                  ELSE Absent
    IN  Ok(<<dp, dp_der>>)

\* The law without its parameter check: a zero divisor gives a non-finite
\* result (written <<1, 0>>), a negative kv or density an ordinary one.
compute_dp_valve_unchecked(mdot, kv, dz, rho_fluid, compute_hydrostatic, compute_der) ==
    IF kv = 0 \/ rho_fluid[1] = 0
    THEN Ok(<<(<<1, 0>>), (<<1, 0>>)>>)
    ELSE compute_dp_valve_body(mdot, kv, dz, rho_fluid, compute_hydrostatic, compute_der)

compute_dp_valve(mdot, kv, dz, rho_fluid, compute_hydrostatic, compute_der) ==
    IF kv <= 0 \/ rho_fluid[1] <= 0
    THEN Raise("InvalidParameter")
    ELSE compute_dp_valve_body(mdot, kv, dz, rho_fluid, compute_hydrostatic, compute_der)

\* --------------------------------------------------------------- component
\* Keyword arguments the constructor merges into the attribute mapping.
KwargsValues ==
    { [mass_flow |-> Absent, temperature |-> Absent, delta_p |-> Absent],
      [mass_flow |-> R(10), temperature |-> R(20), delta_p |-> R(0)] }

\* Component.__init__ followed by BranchValve.__init__: the attribute mapping.
BranchValveInit(kv, dz, line, kwargs) ==
    [kv |-> kv, dz |-> dz, line |-> line,
     mass_flow |-> kwargs.mass_flow,
     temperature |-> kwargs.temperature,
     delta_p |-> kwargs.delta_p]

BranchValveTags ==
    [class |-> "branch_component", type |-> "base_branch_valve", is_ideal |-> FALSE]

\* Line 81: the density lookup, or the error it ends in.
ResolveRho(a, fluid) ==
    IF fluid = "nofluid" THEN Raise("MissingCollaboratorCapability")
    ELSE IF a.temperature = Absent THEN Raise("KeyError")
    ELSE Ok(<<get_rho(fluid, a.temperature)>>)

\* Lines 82-90: the call of the hydraulic law with the component's attributes.
CallLaw(a, rho_fluid, compute_hydrostatic, compute_der) ==
    IF a.mass_flow = Absent THEN Raise("KeyError")
    ELSE compute_dp_valve(a.mass_flow, a.kv, a.dz, rho_fluid,
                          compute_hydrostatic, compute_der)

\* Faulty variant: the two flags passed to the law in each other's place.
DeltaPOutcome_flags_swapped(a, fluid, compute_hydrostatic, compute_der) ==
    LET rho == ResolveRho(a, fluid)
    IN  IF rho.kind = "error" THEN rho
        ELSE CallLaw(a, rho.vals[1], compute_der, compute_hydrostatic)

\* Lines 81-90: what the evaluation computes on attributes a.
DeltaPOutcome(a, fluid, compute_hydrostatic, compute_der) ==
    LET rho == ResolveRho(a, fluid)
    IN  IF rho.kind = "error" THEN rho
        ELSE CallLaw(a, rho.vals[1], compute_hydrostatic, compute_der)

CallRecord(op, fluid, hydro, der, setv, t_in, out) ==
    [op |-> op, fluid |-> fluid, compute_hydrostatic |-> hydro,
     compute_der |-> der, set_values |-> setv, t_in |-> t_in, out |-> out]

NoCall == CallRecord("init", "", FALSE, FALSE, FALSE, Absent, NoOutcome)

\* Component.set(key, value), as the solver uses it before a round.
set(c, key, value) ==
    /\ attrs' = [attrs EXCEPT ![c] = [@ EXCEPT ![key] = value]]
    /\ last' = [last EXCEPT ![c] =
                   CallRecord("set", "", FALSE, FALSE, FALSE, Absent, NoOutcome)]
    /\ UNCHANGED <<tags, threads>>

\* Faulty variant: delta_p written whatever set_values is.
_compute_delta_p_always_sets(c, fluid, compute_hydrostatic, compute_der, set_values) ==
    LET out == DeltaPOutcome(attrs[c], fluid, compute_hydrostatic, compute_der)
    IN  /\ attrs' = IF out.kind = "ok"
                    THEN [attrs EXCEPT ![c].delta_p = out.vals[1]]
                    ELSE attrs
        /\ last' = [last EXCEPT ![c] =
                       CallRecord("delta_p", fluid, compute_hydrostatic, compute_der,
                                  set_values, Absent, out)]
        /\ UNCHANGED <<tags, threads>>

\* Faulty variant: one attribute mapping shared by all instances.
_compute_delta_p_shared_attrs(c, fluid, compute_hydrostatic, compute_der, set_values) ==
    LET out == DeltaPOutcome(attrs[c], fluid, compute_hydrostatic, compute_der)
    IN  /\ attrs' = IF out.kind = "ok" /\ set_values
                    THEN [d \in Comp |-> [attrs[d] EXCEPT !.delta_p = out.vals[1]]]
                    ELSE attrs
        /\ last' = [last EXCEPT ![c] =
                       CallRecord("delta_p", fluid, compute_hydrostatic, compute_der,
                                  set_values, Absent, out)]
        /\ UNCHANGED <<tags, threads>>

\* Faulty variant: a stored non-zero delta_p is returned instead of the new one.
_compute_delta_p_reads_cache(c, fluid, compute_hydrostatic, compute_der, set_values) ==
    LET new == DeltaPOutcome(attrs[c], fluid, compute_hydrostatic, compute_der)
        out == IF new.kind = "ok" /\ attrs[c].delta_p \notin {Absent, R(0)}
               THEN Ok(<<attrs[c].delta_p, new.vals[2]>>)
               ELSE new
    IN  /\ attrs' = IF out.kind = "ok" /\ set_values
                    THEN [attrs EXCEPT ![c].delta_p = out.vals[1]]
                    ELSE attrs
        /\ last' = [last EXCEPT ![c] =
                       CallRecord("delta_p", fluid, compute_hydrostatic, compute_der,
                                  set_values, Absent, out)]
        /\ UNCHANGED <<tags, threads>>

\* Faulty variant: delta_p is written (None on failure) whether the law succeeded or not.
_compute_delta_p_writes_first(c, fluid, compute_hydrostatic, compute_der, set_values) ==
    LET out == DeltaPOutcome(attrs[c], fluid, compute_hydrostatic, compute_der)
    IN  /\ attrs' = IF set_values
                    THEN [attrs EXCEPT ![c].delta_p =
                             IF out.kind = "ok" THEN out.vals[1] ELSE Absent]
                    ELSE attrs
        /\ last' = [last EXCEPT ![c] =
                       CallRecord("delta_p", fluid, compute_hydrostatic, compute_der,
                                  set_values, Absent, out)]
        /\ UNCHANGED <<tags, threads>>

\* BranchValve._compute_delta_p as one step of the sequential solver.
_compute_delta_p(c, fluid, compute_hydrostatic, compute_der, set_values) ==
    LET out == DeltaPOutcome(attrs[c], fluid, compute_hydrostatic, compute_der)
    IN  /\ attrs' = IF out.kind = "ok" /\ set_values
                    THEN [attrs EXCEPT ![c].delta_p = out.vals[1]]
                    ELSE attrs
        /\ last' = [last EXCEPT ![c] =
                       CallRecord("delta_p", fluid, compute_hydrostatic, compute_der,
                                  set_values, Absent, out)]
        /\ UNCHANGED <<tags, threads>>

\* Faulty variant: the inlet temperature is stored in the component.
_compute_temperatures_stores_t_in(c, fluid, soil, t_in) ==
    /\ last' = [last EXCEPT ![c] =
                   CallRecord("temperatures", fluid, FALSE, FALSE, FALSE, t_in,
                              Ok(<<t_in, t_in, t_in, R(0), R(0)>>))]
    /\ attrs' = [attrs EXCEPT ![c].temperature = t_in]
    /\ UNCHANGED <<tags, threads>>

\* BranchValve._compute_temperatures.
_compute_temperatures(c, fluid, soil, t_in) ==
    /\ last' = [last EXCEPT ![c] =
                   CallRecord("temperatures", fluid, FALSE, FALSE, FALSE, t_in,
                              Ok(<<t_in, t_in, t_in, R(0), R(0)>>))]
    /\ UNCHANGED <<attrs, tags, threads>>

\* ------------------------------------------- one valve, sequential solver
Idle == [pc |-> "idle"]

Init ==
    /\ attrs \in [Comp -> {BranchValveInit(cfg[1], cfg[2], cfg[3], kw) :
                             cfg \in ConfigValues, kw \in KwargsValues}]
    /\ attrs["valve_b"] = BranchValveInit(25, 5, "supply", [mass_flow |-> R(10),
                              temperature |-> R(20), delta_p |-> R(0)])
    /\ tags = [c \in Comp |-> BranchValveTags]
    /\ last = [c \in Comp |-> NoCall]
    /\ threads = [t \in Threads |-> Idle]

WriteMassFlow == \E m \in FlowValues : set("valve_a", "mass_flow", R(m))

WriteTemperature == \E t \in TempValues : set("valve_a", "temperature", R(t))

ComputeDeltaP ==
    \E fluid \in Fluids, hydro \in BOOLEAN, der \in BOOLEAN, setv \in BOOLEAN :
        _compute_delta_p("valve_a", fluid, hydro, der, setv)

ComputeTemperatures ==
    \E fluid \in Fluids, t \in TempValues :
        _compute_temperatures("valve_a", fluid, "soil", R(t))

Next == WriteMassFlow \/ WriteTemperature \/ ComputeDeltaP \/ ComputeTemperatures

Spec == Init /\ [][Next]_vars

\* ------------------------------------------ two valves, sequential solver
NetFlowValues == {-10, 10}

NetKwargs == [mass_flow |-> R(10), temperature |-> R(20), delta_p |-> R(0)]

NetInit ==
    /\ attrs = [c \in Comp |-> BranchValveInit(25, 5, "supply", NetKwargs)]
    /\ tags = [c \in Comp |-> BranchValveTags]
    /\ last = [c \in Comp |-> NoCall]
    /\ threads = [t \in Threads |-> Idle]

NetWriteMassFlow == \E c \in Comp, m \in NetFlowValues : set(c, "mass_flow", R(m))

NetComputeDeltaP ==
    \E c \in Comp, hydro \in BOOLEAN, der \in BOOLEAN, setv \in BOOLEAN :
        _compute_delta_p(c, "water", hydro, der, setv)

NetComputeTemperatures ==
    \E c \in Comp : _compute_temperatures(c, "water", "soil", R(20))

NetNext == NetWriteMassFlow \/ NetComputeDeltaP \/ NetComputeTemperatures

SpecNet == NetInit /\ [][NetNext]_vars

\* --------------------------------- two valves, evaluations run in parallel
\* A frame is one call of _compute_delta_p or _compute_temperatures in
\* flight: its arguments, the line it is at, its locals rho_fluid and
\* (dp, dp_der), and the inputs its component held when it was called.
Inputs(a) ==
    [kv |-> a.kv, dz |-> a.dz, mass_flow |-> a.mass_flow, temperature |-> a.temperature]

Frame(pc, op, c, fluid, hydro, der, setv, t_in, rho, out, seen) ==
    [pc |-> pc, op |-> op, comp |-> c, fluid |-> fluid, compute_hydrostatic |-> hydro,
     compute_der |-> der, set_values |-> setv, t_in |-> t_in, rho_fluid |-> rho,
     out |-> out, seen |-> seen]

InFlight(t, c) == threads[t].pc # "idle" /\ threads[t].comp = c

Writing(t, c) == InFlight(t, c) /\ threads[t].op = "delta_p" /\ threads[t].set_values

\* The solver writes a component's inputs between its evaluations.
ParWriteMassFlow ==
    \E c \in Comp, m \in NetFlowValues :
        /\ \A t \in Threads : ~InFlight(t, c)
        /\ set(c, "mass_flow", R(m))

\* The call: at most one evaluation with set_values in flight per component.
EvalCall(t, c, fluid, compute_hydrostatic, compute_der, set_values) ==
    /\ threads[t].pc = "idle"
    /\ set_values => \A u \in Threads : ~Writing(u, c)
    /\ threads' = [threads EXCEPT ![t] =
                      Frame("line81", "delta_p", c, fluid, compute_hydrostatic,
                            compute_der, set_values, Absent, Absent, NoOutcome,
                            Inputs(attrs[c]))]
    /\ UNCHANGED <<attrs, tags, last>>

\* Line 81.
EvalGetRho(t) ==
    LET f == threads[t]
        rho == ResolveRho(attrs[f.comp], f.fluid)
    IN  /\ f.pc = "line81"
        /\ threads' = [threads EXCEPT ![t] =
                          IF rho.kind = "error"
                          THEN [f EXCEPT !.pc = "raised", !.out = rho]
                          ELSE [f EXCEPT !.pc = "line82", !.rho_fluid = rho.vals[1]]]
        /\ UNCHANGED <<attrs, tags, last>>

\* Lines 82-90.
EvalLaw(t) ==
    LET f == threads[t]
        out == CallLaw(attrs[f.comp], f.rho_fluid, f.compute_hydrostatic, f.compute_der)
    IN  /\ f.pc = "line82"
        /\ threads' = [threads EXCEPT ![t] =
                          [f EXCEPT !.pc = IF out.kind = "error" THEN "raised" ELSE "line91",
                                    !.out = out]]
        /\ UNCHANGED <<attrs, tags, last>>

\* Faulty variant: one attribute mapping shared by all instances.
EvalSetValues_shared_attrs(t) ==
    LET f == threads[t]
    IN  /\ f.pc = "line91"
        /\ attrs' = IF f.set_values
                    THEN [d \in Comp |-> [attrs[d] EXCEPT !.delta_p = f.out.vals[1]]]
                    ELSE attrs
        /\ threads' = [threads EXCEPT ![t] = [f EXCEPT !.pc = "returned"]]
        /\ UNCHANGED <<tags, last>>

\* Lines 91-94.
EvalSetValues(t) ==
    LET f == threads[t]
    IN  /\ f.pc = "line91"
        /\ attrs' = IF f.set_values
                    THEN [attrs EXCEPT ![f.comp].delta_p = f.out.vals[1]]
                    ELSE attrs
        /\ threads' = [threads EXCEPT ![t] = [f EXCEPT !.pc = "returned"]]
        /\ UNCHANGED <<tags, last>>

\* Lines 98-99, called from thread t.
EvalTemperatures(t, c, fluid, soil, t_in) ==
    /\ threads[t].pc = "idle"
    /\ threads' = [threads EXCEPT ![t] =
                      Frame("returned", "temperatures", c, fluid, FALSE, FALSE, FALSE,
                            t_in, Absent, Ok(<<t_in, t_in, t_in, R(0), R(0)>>),
                            Inputs(attrs[c]))]
    /\ UNCHANGED <<attrs, tags, last>>

\* The caller takes the result, or the error, and the thread is free again.
EvalDone(t) ==
    /\ threads[t].pc \in {"returned", "raised"}
    /\ threads' = [threads EXCEPT ![t] = Idle]
    /\ UNCHANGED <<attrs, tags, last>>

ParCall ==
    \E t \in Threads, c \in Comp, fluid \in Fluids, setv \in BOOLEAN :
        EvalCall(t, c, fluid, FALSE, TRUE, setv)

ParTemperatures ==
    \E t \in Threads, c \in Comp : EvalTemperatures(t, c, "water", "soil", R(20))

ParStep == \E t \in Threads : EvalGetRho(t) \/ EvalLaw(t) \/ EvalSetValues(t) \/ EvalDone(t)

ParNext == ParWriteMassFlow \/ ParCall \/ ParTemperatures \/ ParStep

SpecPar == NetInit /\ [][ParNext]_vars

\* ================================================================== claims
DeltaPCall(c) == last[c].op = "delta_p"

\* This step is a call of _compute_delta_p on c (with the arguments last'[c]
\* records).
DeltaPStep(c) ==
    /\ last'[c].op = "delta_p"
    /\ _compute_delta_p(c, last'[c].fluid, last'[c].compute_hydrostatic,
                        last'[c].compute_der, last'[c].set_values)

\* This step is a call of _compute_temperatures on c.
TemperaturesStep(c) ==
    /\ last'[c].op = "temperatures"
    /\ _compute_temperatures(c, last'[c].fluid, "soil", last'[c].t_in)

Returned(c) == DeltaPCall(c) /\ last[c].out.kind = "ok"

\* C1: the stored delta_p is the pressure drop returned by the most recent
\* call made with set_values = true: right after such a call delta_p is the
\* value it returned, and from then on delta_p changes only in another call
\* made with set_values = true; a call with set_values = false never
\* changes it.
C1_DeltaPIsLastSetValue ==
    /\ [](\A c \in Comp :
            Returned(c) /\ last[c].set_values => attrs[c].delta_p = last[c].out.vals[1])
    /\ [][\A c \in Comp :
            attrs'[c].delta_p # attrs[c].delta_p =>
                /\ DeltaPStep(c)
                /\ last'[c].set_values
                /\ last'[c].out.kind = "ok"
                /\ attrs'[c].delta_p = last'[c].out.vals[1]]_vars

\* A call with set_values = false has returned a value other than the stored
\* one, which an earlier call with set_values = true wrote.
C1_Witness ==
    /\ Returned("valve_a")
    /\ ~last["valve_a"].set_values
    /\ attrs["valve_a"].delta_p \notin {Absent, R(0)}
    /\ attrs["valve_a"].delta_p # last["valve_a"].out.vals[1]

\* C2: a call of _compute_delta_p on a component leaves its kv, dz, line,
\* mass_flow, temperature and identity tags unchanged for every flag
\* combination, changes nothing when set_values = false, and never changes
\* an attribute or a tag of another component.
C2_Frame ==
    [][\A c \in Comp :
          DeltaPStep(c) =>
              /\ [attrs'[c] EXCEPT !.delta_p = Absent] = [attrs[c] EXCEPT !.delta_p = Absent]
              /\ tags' = tags
              /\ ~last'[c].set_values => attrs' = attrs
              /\ \A d \in Comp \ {c} : attrs'[d] = attrs[d]]_vars

\* Both valves hold a pressure drop written by their own last call, and the
\* two differ.
C2_Witness ==
    /\ \A c \in Comp : Returned(c) /\ last[c].set_values
    /\ attrs["valve_a"].delta_p # attrs["valve_b"].delta_p
    /\ attrs["valve_a"].delta_p = last["valve_a"].out.vals[1]
    /\ attrs["valve_b"].delta_p = last["valve_b"].out.vals[1]

\* C3 (as amended): for every inlet temperature t_in, _compute_temperatures
\* returns five outputs, the inlet temperature unchanged as the first three
\* and zero as the last two, and it modifies no attribute of the component.
C3_PassThrough ==
    /\ [](\A c \in Comp :
            last[c].op = "temperatures" =>
                last[c].out = Ok(<<last[c].t_in, last[c].t_in, last[c].t_in, R(0), R(0)>>))
    /\ [][\A c \in Comp :
            TemperaturesStep(c) => attrs' = attrs /\ tags' = tags]_vars

\* The thermal operation has returned for an inlet temperature that is not
\* the component's stored temperature.
C3_Witness ==
    /\ last["valve_a"].op = "temperatures"
    /\ last["valve_a"].t_in = R(100)
    /\ attrs["valve_a"].temperature = R(20)
    /\ attrs["valve_a"].delta_p \notin {Absent, R(0)}

\* C3 (as stated): the thermal operation returns exactly two temperature
\* outputs equal to t_in and two zero outputs.
C3_Original ==
    \A c \in Comp :
        last[c].op = "temperatures" =>
            last[c].out.vals = <<last[c].t_in, last[c].t_in, R(0), R(0)>>

C5_OddSymmetry ==
    \A c \in Comp :
        Returned(c) /\ (~last[c].compute_hydrostatic \/ attrs[c].dz = 0) =>
            LET m == attrs[c].mass_flow
                dp == last[c].out.vals[1]
                reversed == DeltaPOutcome([attrs[c] EXCEPT !.mass_flow = RNeg(m)],
                                          last[c].fluid, last[c].compute_hydrostatic,
                                          last[c].compute_der)
            IN  /\ attrs[c].kv > 0
                /\ reversed.kind = "ok"
                /\ reversed.vals[1] = RNeg(dp)
                /\ RSign(dp) = RSign(m)
                /\ m = R(0) => dp = R(0)

\* A reverse flow has been evaluated and the pressure drop is negative.
C5_Witness ==
    /\ Returned("valve_a")
    /\ ~last["valve_a"].compute_hydrostatic
    /\ attrs["valve_a"].dz = 5
    /\ attrs["valve_a"].mass_flow = R(-10)
    /\ RSign(last["valve_a"].out.vals[1]) = -1

\* C6: for fixed kv, dz and density, the pressure drop with
\* compute_hydrostatic = true minus the one with compute_hydrostatic = false
\* is rho g dz for every mass flow (49033.25 for dz = 5 and rho = 1000), and
\* with compute_hydrostatic = false the result does not depend on dz.
C6_Hydrostatic ==
    \A c \in Comp :
        Returned(c) =>
            LET a == attrs[c]
                call == last[c]
                rho == get_rho(call.fluid, a.temperature)
                other == DeltaPOutcome(a, call.fluid, ~call.compute_hydrostatic,
                                       call.compute_der)
                with == IF call.compute_hydrostatic THEN call.out ELSE other
                without == IF call.compute_hydrostatic THEN other ELSE call.out
                term == RMul(RMul(rho, <<196133, 20000>>), R(a.dz))
            IN  /\ RSub(with.vals[1], without.vals[1]) = term
                /\ a.dz = 5 /\ rho = R(1000) => term = <<196133, 4>>
                /\ \A m \in FlowValues :
                      LET b == [a EXCEPT !.mass_flow = R(m)]
                      IN  RSub(DeltaPOutcome(b, call.fluid, TRUE, call.compute_der).vals[1],
                               DeltaPOutcome(b, call.fluid, FALSE, call.compute_der).vals[1])
                              = term
                /\ \A dz \in {-5, 0, 5} :
                      DeltaPOutcome([a EXCEPT !.dz = dz], call.fluid, FALSE,
                                    call.compute_der) = without

\* A valve with dz = 5 has been evaluated with the hydrostatic term and
\* without the derivative, at a reverse flow.
C6_Witness ==
    /\ Returned("valve_a")
    /\ last["valve_a"].compute_hydrostatic
    /\ ~last["valve_a"].compute_der
    /\ attrs["valve_a"].dz = 5
    /\ attrs["valve_a"].temperature = R(20)
    /\ attrs["valve_a"].mass_flow = R(-10)

Example(c) ==
    /\ Returned(c)
    /\ last[c].fluid = "water"
    /\ attrs[c].temperature = R(20)
    /\ attrs[c].kv = 25
    /\ attrs[c].dz = 0 \/ ~last[c].compute_hydrostatic

ExampleIs(c, dp, der, tol) ==
    LET m == attrs[c].mass_flow
        out == last[c].out.vals
    IN  /\ m = R(10) => RNear(out[1], dp, tol)
        /\ m = R(10) /\ last[c].compute_der => RNear(out[2], der, tol)
        /\ m = R(-10) => RNear(out[1], RNeg(dp), tol)

\* C7 (as amended): for kv = 25, mass_flow = 10, density = 1000 and dz = 0
\* the friction law yields a pressure drop of 207360 and a derivative of
\* 41472 (to within 0.01); for mass_flow = -10 the pressure drop is -207360.
C7_WorkedExample ==
    \A c \in Comp : Example(c) => ExampleIs(c, R(207360), R(41472), 100)

\* The worked example has been evaluated with its derivative.
C7_Witness ==
    /\ Example("valve_a")
    /\ attrs["valve_a"].mass_flow = R(10)
    /\ attrs["valve_a"].dz = 0
    /\ last["valve_a"].compute_der

\* C7 (as stated): the pressure drop is approximately 207.36 and the
\* derivative approximately 41.47 (to within 0.01 here); for
\* mass_flow = -10 the pressure drop is approximately -207.36.
C7_Original ==
    \A c \in Comp : Example(c) => ExampleIs(c, <<5184, 25>>, <<4147, 100>>, 100)

\* C8: the value returned does not depend on the stored delta_p or on the
\* evaluation history: two components that agree on kv, dz, mass_flow and
\* temperature return the same pressure drop and derivative for the same
\* fluid and flags, whatever their delta_p and whether or not their calls
\* used set_values.
C8_NoReadBack ==
    \A c \in Comp, d \in Comp :
        /\ DeltaPCall(c) /\ DeltaPCall(d)
        /\ Inputs(attrs[c]) = Inputs(attrs[d])
        /\ last[c].fluid = last[d].fluid
        /\ last[c].compute_hydrostatic = last[d].compute_hydrostatic
        /\ last[c].compute_der = last[d].compute_der
        => last[c].out = last[d].out

\* The two valves agree on their inputs, were evaluated with the same fluid
\* and flags, and differ in delta_p and in set_values.
C8_Witness ==
    /\ Returned("valve_a") /\ Returned("valve_b")
    /\ Inputs(attrs["valve_a"]) = Inputs(attrs["valve_b"])
    /\ last["valve_a"].compute_hydrostatic = last["valve_b"].compute_hydrostatic
    /\ last["valve_a"].compute_der = last["valve_b"].compute_der
    /\ last["valve_a"].set_values /\ ~last["valve_b"].set_values
    /\ attrs["valve_a"].delta_p # attrs["valve_b"].delta_p
    /\ attrs["valve_b"].delta_p # R(0)

Evaluating(t) == threads[t].pc # "idle"

Finished(t) == threads[t].pc \in {"returned", "raised"}

\* What the call in frame f returns when nothing else runs during it.
Sequential(f) ==
    IF f.op = "delta_p"
    THEN DeltaPOutcome(f.seen, f.fluid, f.compute_hydrostatic, f.compute_der)
    ELSE Ok(<<f.t_in, f.t_in, f.t_in, R(0), R(0)>>)

\* C9: with evaluations of the two components interleaved in any order and
\* at most one evaluation with set_values = true in flight per component,
\* every evaluation ends as it would have run alone on the inputs its
\* component held at the call, the delta_p it leaves is the pressure drop
\* it returned, and a step of an evaluation changes nothing but the
\* delta_p of its own component.
C9_Interleaving ==
    /\ [](\A t \in Threads :
            Finished(t) =>
                /\ threads[t].out = Sequential(threads[t])
                /\ (threads[t].pc = "raised") = (threads[t].out.kind = "error")
                /\ threads[t].pc = "returned" /\ threads[t].set_values =>
                       attrs[threads[t].comp].delta_p = threads[t].out.vals[1])
    /\ [][\A t \in Threads :
            threads'[t] # threads[t] =>
                LET f == IF Evaluating(t) THEN threads[t] ELSE threads'[t]
                IN  /\ tags' = tags
                    /\ \A d \in Comp \ {f.comp} : attrs'[d] = attrs[d]
                    /\ Inputs(attrs'[f.comp]) = Inputs(attrs[f.comp])
                    /\ attrs'[f.comp].line = attrs[f.comp].line
                    /\ attrs' # attrs => f.pc = "line91" /\ f.set_values]_vars

\* Both threads have returned from overlapping evaluations with
\* set_values = true on different components, with different results.
C9_Witness ==
    /\ \A t \in Threads :
          threads[t].pc = "returned" /\ threads[t].op = "delta_p" /\ threads[t].set_values
    /\ threads["t1"].comp # threads["t2"].comp
    /\ threads["t1"].out # threads["t2"].out

\* C10: when an evaluation called with set_values = true fails (the density
\* lookup fails or is missing, or the hydraulic law raises), the caller gets
\* that error and delta_p and every other attribute keep the values they
\* had before the call.
C10_FailureLeavesState ==
    [][\A c \in Comp :
          DeltaPStep(c) /\ last'[c].set_values =>
              LET rho == ResolveRho(attrs[c], last'[c].fluid)
                  failure == IF rho.kind = "error" THEN rho
                             ELSE CallLaw(attrs[c], rho.vals[1],
                                          last'[c].compute_hydrostatic, last'[c].compute_der)
              IN  failure.kind = "error" =>
                      /\ last'[c].out = failure
                      /\ attrs' = attrs
                      /\ tags' = tags]_vars

\* A call with set_values = true has failed on a valve that holds a
\* pressure drop from an earlier call.
C10_Witness ==
    /\ DeltaPCall("valve_a")
    /\ last["valve_a"].set_values
    /\ last["valve_a"].out.kind = "error"
    /\ attrs["valve_a"].delta_p \notin {Absent, R(0)}

====
